---- MODULE Spec2Model ----
(***************************************************************************)
(* Model of pdt_view.py: the seven viewport operators of Precision Drawing *)
(* Tools (absolute rotate, orbit left/right/up/down, roll, isometric,      *)
(* reset 3D view) acting on the host's screen areas.                       *)
(*                                                                         *)
(* Numbers are exact decimals <<m, e>> standing for m * 10^e, kept         *)
(* normalised (m has no trailing zero, zero is <<0, 0>>), so that value    *)
(* equality is tuple equality; -0.0 and 0.0 are the same value, as they    *)
(* compare equal in Python.  Angles in radians are kept as <<n, d>>        *)
(* standing for n * pi / d.                                                *)
(***************************************************************************)
EXTENDS Integers, Sequences, FiniteSets, TLC

VARIABLES areas, rotation_coords, vrotangle, lastOp, repeated, status, calls,
          cq, corder, cmode

vars == <<areas, rotation_coords, vrotangle, lastOp, repeated, status, calls,
          cq, corder, cmode>>

\* ------------------------------------------------------------------ bounds
MaxAreas == 2

\* ------------------------------------------------------------- decimals
RECURSIVE Norm(_, _)
Norm(m, e) == IF m = 0 THEN <<0, 0>>
              ELSE IF m % 10 = 0 THEN Norm(m \div 10, e + 1)
              ELSE <<m, e>>

Dec(m, e) == Norm(m, e)

RECURSIVE Pow10(_)
Pow10(k) == IF k = 0 THEN 1 ELSE 10 * Pow10(k - 1)

DecMul(a, b) == Norm(a[1] * b[1], a[2] + b[2])

DecAdd(a, b) ==
    LET lo == IF a[2] < b[2] THEN a[2] ELSE b[2]
    IN  Norm(a[1] * Pow10(a[2] - lo) + b[1] * Pow10(b[2] - lo), lo)

DecNeg(a) == <<0 - a[1], a[2]>>

DecSub(a, b) == DecAdd(a, DecNeg(b))

Zero == Dec(0, 0)
One  == Dec(1, 0)

\* ----------------------------------------------------------- quaternions
\* mathutils.Quaternion((w, x, y, z)): the four components, -0.0 being 0.0
Quaternion(v) == <<v[1], v[2], v[3], v[4]>>

\* Quaternion * scalar: every component multiplied
QuatScale(q, s) == <<DecMul(q[1], s), DecMul(q[2], s),
                     DecMul(q[3], s), DecMul(q[4], s)>>

\* Hamilton product
QuatMul(a, b) ==
    <<DecSub(DecSub(DecSub(DecMul(a[1], b[1]), DecMul(a[2], b[2])),
                    DecMul(a[3], b[3])), DecMul(a[4], b[4])),
      DecSub(DecAdd(DecAdd(DecMul(a[1], b[2]), DecMul(a[2], b[1])),
                    DecMul(a[3], b[4])), DecMul(a[4], b[3])),
      DecAdd(DecAdd(DecSub(DecMul(a[1], b[3]), DecMul(a[2], b[4])),
                    DecMul(a[3], b[1])), DecMul(a[4], b[2])),
      DecAdd(DecSub(DecAdd(DecMul(a[1], b[4]), DecMul(a[2], b[3])),
                    DecMul(a[3], b[2])), DecMul(a[4], b[1]))>>

\* ---------------------------------------------------------------- angles
\* deg * pi / 180
DegToRad(deg) == <<deg, 180>>

\* The half angle r/2 = (n/d) * (pi/2), counted in quarter turns; the model
\* evaluates the trigonometric functions where they are exact, that is for
\* whole quarter turns of the half angle (inputs that are multiples of 180).
HalfQuarterTurns(r) == (r[1] \div r[2]) % 4

CosHalf(r) == CASE HalfQuarterTurns(r) = 0 -> One
                [] HalfQuarterTurns(r) = 2 -> DecNeg(One)
                [] OTHER -> Zero

SinHalf(r) == CASE HalfQuarterTurns(r) = 1 -> One
                [] HalfQuarterTurns(r) = 3 -> DecNeg(One)
                [] OTHER -> Zero

\* pdt_functions.euler_to_quaternion(roll, pitch, yaw): the three axis
\* rotations composed in the fixed order Z (yaw) * Y (pitch) * X (roll)
euler_to_quaternion(roll, pitch, yaw) ==
    QuatMul(QuatMul(<<CosHalf(yaw), Zero, Zero, SinHalf(yaw)>>,
                    <<CosHalf(pitch), Zero, SinHalf(pitch), Zero>>),
            <<CosHalf(roll), SinHalf(roll), Zero, Zero>>)

\* ------------------------------------------------------------- constants
FINISHED == "FINISHED"
\* region_3d is None, or <<rv3d>> when the space has a 3D region
None     == <<>>

\* The default distance to the origin when starting up Blender
default_distance == 18

\* The default view matrix when starting up Blender
default_view_matrix ==
    << <<Dec(41, -2),    Dec(-4017, -4), Dec(8188, -4),    Zero>>,
       <<Dec(912, -3),   Dec(1936, -4),  Dec(-3617, -4),   Zero>>,
       <<Dec(-133, -4),  Dec(8959, -4),  Dec(4458, -4),    Zero>>,
       <<Zero,           Zero,           Dec(-149892, -4), One>> >>

\* Variant: two digits of the first component exchanged
iso_quaternion_typo ==
    Quaternion(<<Dec(8025, -4), Dec(4247, -4), Dec(-1759, -4), Dec(-3399, -4)>>)

\* The literal of the isometric view
iso_quaternion ==
    Quaternion(<<Dec(8205, -4), Dec(4247, -4), Dec(-1759, -4), Dec(-3399, -4)>>)

\* Variant: the BACK row carrying a copy of the FRONT row's components
vlist_copied_row ==
    << [v |-> <<Dec(10000000, 0), Zero, Zero, Zero>>, vm |-> "TOP"],
       [v |-> <<Dec(70710675, -1), Dec(70710675, -1), Zero, Zero>>,
        vm |-> "FRONT"],
       [v |-> <<Dec(5000000, 0), Dec(5000000, 0), Dec(5000000, 0),
                Dec(5000000, 0)>>, vm |-> "RIGHT"],
       [v |-> <<Zero, Dec(10000000, 0), Zero, Zero>>, vm |-> "BOTTOM"],
       [v |-> <<Dec(70710675, -1), Dec(70710675, -1), Zero, Zero>>,
        vm |-> "BACK"],
       [v |-> <<Dec(5000000, 0), Dec(5000000, 0), Dec(-5000000, 0),
                Dec(-5000000, 0)>>, vm |-> "LEFT"] >>

\* The lookup table of the reset operator, already scaled by 10000000
vlist ==
    << [v |-> <<Dec(10000000, 0), Zero, Zero, Zero>>, vm |-> "TOP"],
       [v |-> <<Dec(70710675, -1), Dec(70710675, -1), Zero, Zero>>,
        vm |-> "FRONT"],
       [v |-> <<Dec(5000000, 0), Dec(5000000, 0), Dec(5000000, 0),
                Dec(5000000, 0)>>, vm |-> "RIGHT"],
       [v |-> <<Zero, Dec(10000000, 0), Zero, Zero>>, vm |-> "BOTTOM"],
       [v |-> <<Zero, Zero, Dec(70710675, -1), Dec(70710675, -1)>>,
        vm |-> "BACK"],
       [v |-> <<Dec(5000000, 0), Dec(5000000, 0), Dec(-5000000, 0),
                Dec(-5000000, 0)>>, vm |-> "LEFT"] >>

ViewModes == {"TOP", "FRONT", "RIGHT", "BOTTOM", "BACK", "LEFT"}

\* -------------------------------------------------- the host's value sets
\* Orientations the host viewport can hold in the model: the six axis
\* aligned views, the isometric view, and views that are none of them.
QTop    == <<One, Zero, Zero, Zero>>
QFront  == <<Dec(70710675, -8), Dec(70710675, -8), Zero, Zero>>
QRight  == <<Dec(5, -1), Dec(5, -1), Dec(5, -1), Dec(5, -1)>>
QBottom == <<Zero, One, Zero, Zero>>
QBack   == <<Zero, Zero, Dec(70710675, -8), Dec(70710675, -8)>>
QLeft   == <<Dec(5, -1), Dec(5, -1), Dec(-5, -1), Dec(-5, -1)>>
QNearFront == <<Dec(7071, -4), Dec(7071, -4), Zero, Zero>>
QFlipped   == <<Zero, Zero, One, Zero>>

AxisQuats  == {QTop, QFront, QRight, QBottom, QBack, QLeft}
HostQuats  == AxisQuats \cup {iso_quaternion, QNearFront, QFlipped}

\* Orientations an orbit or a roll of the host ends in
OrbitedQuats == {QFront, QNearFront}

user_view_matrix ==
    << <<One, Zero, Zero, Zero>>, <<Zero, One, Zero, Zero>>,
       <<Zero, Zero, One, Zero>>, <<Zero, Zero, Dec(-10, 0), One>> >>

InitDistances == {10}

\* pg.rotation_coords (degrees) and pg.vrotangle (degrees)
Vector(x, y, z) == [x |-> x, y |-> y, z |-> z]
RotationInputs == {Vector(180, 0, 0), Vector(0, 180, 0)}
AngleInputs == {-30, 45}

\* ------------------------------------------------------------- the screen
RegionView3D(q, m, d) ==
    [view_rotation |-> q, view_matrix |-> m, view_distance |-> d]

Area(t, r) == [type |-> t, region_3d |-> r]

InitAreas ==
    {Area("IMAGE_EDITOR", None), Area("VIEW_3D", None)}
    \cup {Area("VIEW_3D", <<RegionView3D(q, user_view_matrix, d)>>) :
              q \in HostQuats, d \in InitDistances}

RECURSIVE SeqsUpTo(_, _)
SeqsUpTo(S, n) ==
    IF n = 0 THEN {<<>>}
    ELSE LET shorter == SeqsUpTo(S, n - 1)
         IN  shorter \cup {Append(s, x) : s \in {t \in shorter : Len(t) = n - 1},
                                          x \in S}

\* Variant: the type filter left out, every area taken
View3DAreas_unfiltered(as) == [i \in 1..Len(as) |-> i]

\* [a for a in context.screen.areas if a.type == "VIEW_3D"], as indexes
RECURSIVE View3DFrom(_, _)
View3DFrom(as, i) ==
    IF i > Len(as) THEN <<>>
    ELSE IF as[i].type = "VIEW_3D" THEN <<i>> \o View3DFrom(as, i + 1)
    ELSE View3DFrom(as, i + 1)

View3DAreas(as) == View3DFrom(as, 1)

HasRegion(a) == a.type = "VIEW_3D" /\ a.region_3d # None

\* ------------------------------------------------------------ host calls
\* bpy.ops.view3d.view_orbit(angle=..., type=...)
view_orbit(angle, type) ==
    [op |-> "view3d.view_orbit", angle |-> angle, type |-> type]

\* bpy.ops.view3d.view_roll(angle=..., type=...)
view_roll(angle, type) ==
    [op |-> "view3d.view_roll", angle |-> angle, type |-> type]

\* What the host's orbit and roll operators may do to the screen: turn the
\* view of one 3D region to some orientation, or nothing (no region under
\* the operator's context).  They never touch view_matrix or view_distance.
HostTurns(as) ==
    {as} \cup {[as EXCEPT ![i].region_3d[1].view_rotation = q] :
                  i \in {j \in 1..Len(as) : HasRegion(as[j])},
                  q \in OrbitedQuats}

\* Variant: the rotation applied on top of the current one
AssignViewRotation_incremental(rv3d, q) ==
    [rv3d EXCEPT !.view_rotation = QuatMul(@, q)]

\* Variant: the assignment also putting the view back at the default distance
AssignViewRotation_refitted(rv3d, q) ==
    [rv3d EXCEPT !.view_rotation = q, !.view_distance = default_distance]

\* rv3d.view_rotation = q
AssignViewRotation(rv3d, q) == [rv3d EXCEPT !.view_rotation = q]

\* ---------------------------------------------------------- bookkeeping
\* lastOp is the bl_idname of the operator that ran last, repeated says
\* that the operator before it was the same one, status is what execute
\* returned (or the exception it raised), calls the host operators it ran.
Ran(op) == lastOp' = op /\ repeated' = (lastOp = op)

Classifier == <<cq, corder, cmode>>
Inputs     == <<rotation_coords, vrotangle>>

\* ------------------------------------------------------------- operators
\* areas[0].spaces.active.region_3d.view_rotation = q
AssignFirstView(q) ==
    LET found == View3DAreas(areas)
    IN  IF Len(found) > 0
        THEN IF areas[found[1]].region_3d = None
             THEN /\ areas' = areas
                  /\ status' = "AttributeError"
             ELSE /\ areas' = [areas EXCEPT ![found[1]].region_3d[1] =
                                   AssignViewRotation(@, q)]
                  /\ status' = FINISHED
        ELSE /\ areas' = areas
             /\ status' = FINISHED

PDT_OT_ViewRot ==
    /\ AssignFirstView(euler_to_quaternion(DegToRad(rotation_coords.x),
                                           DegToRad(rotation_coords.y),
                                           DegToRad(rotation_coords.z)))
    /\ calls' = <<>>
    /\ Ran("pdt.viewrot")
    /\ UNCHANGED <<Inputs, Classifier>>

\* The body shared by the five orbit and roll operators
HostOperator(call) ==
    /\ IF Len(View3DAreas(areas)) > 0
       THEN /\ calls' = <<call>>
            /\ areas' \in HostTurns(areas)
       ELSE /\ calls' = <<>>
            /\ areas' = areas
    /\ status' = FINISHED

PDT_OT_vRotL ==
    /\ HostOperator(view_orbit(DegToRad(vrotangle), "ORBITLEFT"))
    /\ Ran("pdt.viewleft")
    /\ UNCHANGED <<Inputs, Classifier>>

\* Variant: orbit right built from a copy of orbit left, tag not changed
PDT_OT_vRotR_copied ==
    /\ HostOperator(view_orbit(DegToRad(vrotangle), "ORBITLEFT"))
    /\ Ran("pdt.viewright")
    /\ UNCHANGED <<Inputs, Classifier>>

PDT_OT_vRotR ==
    /\ HostOperator(view_orbit(DegToRad(vrotangle), "ORBITRIGHT"))
    /\ Ran("pdt.viewright")
    /\ UNCHANGED <<Inputs, Classifier>>

PDT_OT_vRotU ==
    /\ HostOperator(view_orbit(DegToRad(vrotangle), "ORBITUP"))
    /\ Ran("pdt.viewup")
    /\ UNCHANGED <<Inputs, Classifier>>

PDT_OT_vRotD ==
    /\ HostOperator(view_orbit(DegToRad(vrotangle), "ORBITDOWN"))
    /\ Ran("pdt.viewdown")
    /\ UNCHANGED <<Inputs, Classifier>>

\* Variant: the roll operator clearing the angle once it has used it
PDT_OT_vRoll_consuming ==
    /\ HostOperator(view_roll(DegToRad(vrotangle), "ANGLE"))
    /\ Ran("pdt.viewroll")
    /\ vrotangle' = 0
    /\ UNCHANGED <<rotation_coords, Classifier>>

PDT_OT_vRoll ==
    /\ HostOperator(view_roll(DegToRad(vrotangle), "ANGLE"))
    /\ Ran("pdt.viewroll")
    /\ UNCHANGED <<Inputs, Classifier>>

PDT_OT_viso ==
    /\ AssignFirstView(iso_quaternion)
    /\ calls' = <<>>
    /\ Ran("pdt.viewiso")
    /\ UNCHANGED <<Inputs, Classifier>>

\* ------------------------------------------------------------ reset view
\* for v, vm in vlist: if view_rot == Quaternion(v): view_mode = vm
RECURSIVE Classify(_, _, _, _)
Classify(view_rot, table, k, view_mode) ==
    IF k > Len(table) THEN view_mode
    ELSE Classify(view_rot, table, k + 1,
                  IF view_rot = Quaternion(table[k].v) THEN table[k].vm
                  ELSE view_mode)

\* Variant: the scale factor written with one zero less
ScaledRotation_short(rv3d) == QuatScale(rv3d.view_rotation, Dec(1000000, 0))

\* view_rot = rv3d.view_rotation * 10000000
ScaledRotation(rv3d) == QuatScale(rv3d.view_rotation, Dec(10000000, 0))

\* Variant: the unmatched branch also snapping the view to the top view
ResetRegion_snapping(rv3d, view_mode) ==
    LET kept == IF view_mode \in ViewModes
                THEN [rv3d EXCEPT !.view_distance = default_distance]
                ELSE rv3d
    IN  IF view_mode = "none"
        THEN [kept EXCEPT !.view_matrix = default_view_matrix,
                          !.view_rotation = QTop,
                          !.view_distance = default_distance + 3]
        ELSE kept

\* The SET part of the loop body, for the view mode found
ResetRegion(rv3d, view_mode) ==
    LET kept == IF view_mode \in ViewModes
                THEN [rv3d EXCEPT !.view_distance = default_distance]
                ELSE rv3d
    IN  IF view_mode = "none"
        THEN [kept EXCEPT !.view_matrix = default_view_matrix,
                          !.view_distance = default_distance + 3]
        ELSE kept

\* Variant: the RESET part left out, the mode kept for the next area
ModeForNextArea_kept(view_mode) == view_mode

\* The RESET part of the loop body: view_mode = "none"
ModeForNextArea(view_mode) == "none"

\* for area in bpy.context.screen.areas: ...
RECURSIVE ResetLoop(_, _, _)
ResetLoop(as, i, view_mode) ==
    IF i > Len(as) THEN as
    ELSE IF as[i].type = "VIEW_3D" /\ as[i].region_3d # None
         THEN LET rv3d  == as[i].region_3d[1]
                  found == Classify(ScaledRotation(rv3d), vlist, 1, view_mode)
              IN  ResetLoop([as EXCEPT ![i].region_3d[1] =
                                 ResetRegion(rv3d, found)],
                            i + 1, ModeForNextArea(found))
         ELSE ResetLoop(as, i + 1, view_mode)

PDT_OT_Reset3DView ==
    /\ areas' = ResetLoop(areas, 1, "none")
    /\ status' = FINISHED
    /\ calls' = <<>>
    /\ Ran("pdt.reset_3d_view")
    /\ UNCHANGED <<Inputs, Classifier>>

\* ------------------------------------------ the lookup, on its own
\* The table in another order: corder is a permutation of its indexes
Reordered(table, order) == [k \in 1..Len(table) |-> table[order[k]]]

\* One pass of the lookup loop over the table taken in the order corder
ClassifyOrientation ==
    /\ cmode = "pending"
    /\ cmode' = Classify(ScaledRotation([view_rotation |-> cq]),
                         Reordered(vlist, corder), 1, "none")
    /\ UNCHANGED <<areas, Inputs, lastOp, repeated, status, calls, cq, corder>>

\* ---------------------------------------------------------- specification
Init ==
    /\ areas \in SeqsUpTo(InitAreas, MaxAreas)
    /\ rotation_coords \in RotationInputs
    /\ vrotangle \in AngleInputs
    /\ lastOp = "none"
    /\ repeated = FALSE
    /\ status = "none"
    /\ calls = <<>>
    /\ cq = QTop
    /\ corder = <<1, 2, 3, 4, 5, 6>>
    /\ cmode = "none"

Next ==
    \/ PDT_OT_ViewRot
    \/ PDT_OT_vRotL
    \/ PDT_OT_vRotR
    \/ PDT_OT_vRotU
    \/ PDT_OT_vRotD
    \/ PDT_OT_vRoll
    \/ PDT_OT_viso
    \/ PDT_OT_Reset3DView

Spec == Init /\ [][Next]_vars

\* The lookup loop applied to every orientation under every table order
InitLookup ==
    /\ areas = <<>>
    /\ rotation_coords = Vector(180, 0, 0)
    /\ vrotangle = 45
    /\ lastOp = "none"
    /\ repeated = FALSE
    /\ status = "none"
    /\ calls = <<>>
    /\ cq \in HostQuats
    /\ corder \in Permutations(1..Len(vlist))
    /\ cmode = "pending"

NextLookup == ClassifyOrientation

SpecLookup == InitLookup /\ [][NextLookup]_vars

\* ------------------------------------------------------------ properties
Regions(as)  == {i \in 1..Len(as) : HasRegion(as[i])}
No3DArea(as) == \A i \in 1..Len(as) : as[i].type # "VIEW_3D"
First3D(as)  == CHOOSE i \in 1..Len(as) :
                    /\ as[i].type = "VIEW_3D"
                    /\ \A j \in 1..(i - 1) : as[j].type # "VIEW_3D"
FirstIsRegion(as) == ~No3DArea(as) /\ HasRegion(as[First3D(as)])
RegionOf(as, i)   == as[i].region_3d[1]

Operators == {"pdt.viewrot", "pdt.viewleft", "pdt.viewright", "pdt.viewup",
              "pdt.viewdown", "pdt.viewroll", "pdt.viewiso",
              "pdt.reset_3d_view"}

\* C1: a reset leaves a region whose orientation is one of the six axis
\* views as it was except for view_distance, which becomes 18; for any
\* other orientation it replaces view_matrix by the default matrix, sets
\* view_distance to 21 and leaves the orientation alone.
C1_ResetByOrientation ==
    [][lastOp' = "pdt.reset_3d_view" =>
         \A i \in Regions(areas) :
            LET old == RegionOf(areas, i)
            IN  IF old.view_rotation \in AxisQuats
                THEN RegionOf(areas', i) = [old EXCEPT !.view_distance = 18]
                ELSE RegionOf(areas', i) =
                         [old EXCEPT !.view_matrix = default_view_matrix,
                                     !.view_distance = 21]]_vars

C1_Witness ==
    /\ lastOp = "pdt.reset_3d_view"
    /\ \E i \in Regions(areas) :
          /\ RegionOf(areas, i).view_rotation = QLeft
          /\ RegionOf(areas, i).view_distance = 18
          /\ RegionOf(areas, i).view_matrix = user_view_matrix
    /\ \E i \in Regions(areas) :
          /\ RegionOf(areas, i).view_rotation = QNearFront
          /\ RegionOf(areas, i).view_distance = 21
          /\ RegionOf(areas, i).view_matrix = default_view_matrix

\* C2: on a screen without a 3D area every operator returns FINISHED,
\* changes no area and runs no host operator; a reset leaves a 3D area
\* that has no region as it is.
C2_NoViewportNoOp ==
    [][/\ (lastOp' \in Operators /\ No3DArea(areas)) =>
              (areas' = areas /\ calls' = <<>> /\ status' = "FINISHED")
       /\ lastOp' = "pdt.reset_3d_view" =>
              /\ status' = "FINISHED"
              /\ \A i \in 1..Len(areas) :
                    (areas[i].type = "VIEW_3D" /\ areas[i].region_3d = <<>>)
                        => areas'[i] = areas[i]]_vars

C2_Witness ==
    /\ Len(areas) = 2
    /\ No3DArea(areas)
    /\ lastOp = "pdt.viewdown"
    /\ repeated
    /\ status = "FINISHED"
    /\ calls = <<>>

C2_WitnessReset ==
    /\ lastOp = "pdt.reset_3d_view"
    /\ \E i, j \in 1..Len(areas) :
          /\ areas[i].type = "VIEW_3D" /\ areas[i].region_3d = <<>>
          /\ HasRegion(areas[j]) /\ RegionOf(areas, j).view_distance = 21

C4_HostCall ==
    LET angle == <<vrotangle, 180>>
        Orbit(tag) == <<[op |-> "view3d.view_orbit", angle |-> angle,
                         type |-> tag]>>
    IN  ~No3DArea(areas) =>
          /\ lastOp = "pdt.viewleft"  => calls = Orbit("ORBITLEFT")
          /\ lastOp = "pdt.viewright" => calls = Orbit("ORBITRIGHT")
          /\ lastOp = "pdt.viewup"    => calls = Orbit("ORBITUP")
          /\ lastOp = "pdt.viewdown"  => calls = Orbit("ORBITDOWN")
          /\ lastOp = "pdt.viewroll"  =>
                 calls = <<[op |-> "view3d.view_roll", angle |-> angle,
                            type |-> "ANGLE"]>>

C4_Witness ==
    /\ lastOp = "pdt.viewright"
    /\ vrotangle = -30
    /\ Len(calls) = 1
    /\ calls[1].angle = <<-30, 180>>
    /\ \E i \in Regions(areas) : RegionOf(areas, i).view_rotation = QNearFront

\* C5: the isometric operator leaves the first 3D region with exactly the
\* orientation (0.8205, 0.4247, -0.1759, -0.3399), whatever the state was.
C5_Isometric ==
    [][(lastOp' = "pdt.viewiso" /\ FirstIsRegion(areas)) =>
          /\ RegionOf(areas', First3D(areas)).view_rotation =
                 <<Dec(8205, -4), Dec(4247, -4), Dec(-1759, -4),
                   Dec(-3399, -4)>>
          /\ status' = "FINISHED"]_vars

C5_Witness ==
    /\ lastOp = "pdt.viewiso"
    /\ ~repeated
    /\ FirstIsRegion(areas)
    /\ RegionOf(areas, First3D(areas)) =
           RegionView3D(<<Dec(8205, -4), Dec(4247, -4), Dec(-1759, -4),
                          Dec(-3399, -4)>>, user_view_matrix, 18)

\* C6: no operator assigns the rotation input or the delta angle: every
\* step leaves both as they were.
C6_InputsReadOnly ==
    [][rotation_coords' = rotation_coords /\ vrotangle' = vrotangle]_vars

C6_Witness ==
    /\ lastOp = "pdt.viewroll"
    /\ repeated
    /\ Len(calls) = 1
    /\ vrotangle = 45
    /\ rotation_coords = Vector(180, 0, 0)

\* C7: an orientation equals at most one row of the lookup table, so the
\* mode the loop ends with is the same for every order of the rows.
C7_OneMatch ==
    cmode # "pending" =>
        /\ Cardinality({k \in 1..Len(vlist) :
               QuatScale(cq, Dec(10000000, 0)) = vlist[k].v}) <= 1
        /\ cmode = Classify(QuatScale(cq, Dec(10000000, 0)), vlist, 1, "none")

C7_Witness ==
    /\ cmode = "BACK"
    /\ cq = QBack
    /\ corder = <<6, 5, 4, 3, 2, 1>>

C9_PerArea ==
    [][/\ lastOp' = "pdt.reset_3d_view" =>
              \A i \in 1..Len(areas) :
                  areas'[i] = ResetLoop(<<areas[i]>>, 1, "none")[1]
       /\ lastOp' \in {"pdt.viewrot", "pdt.viewiso"} =>
              \A i \in 1..Len(areas) :
                  (No3DArea(areas) \/ i # First3D(areas))
                      => areas'[i] = areas[i]]_vars

C9_Witness ==
    /\ lastOp = "pdt.reset_3d_view"
    /\ Len(areas) = 2
    /\ HasRegion(areas[1]) /\ HasRegion(areas[2])
    /\ RegionOf(areas, 1).view_rotation = QRight
    /\ RegionOf(areas, 1).view_distance = 18
    /\ RegionOf(areas, 2).view_rotation = QFlipped
    /\ RegionOf(areas, 2).view_distance = 21

C9_WitnessFirstOnly ==
    /\ lastOp = "pdt.viewiso"
    /\ Len(areas) = 2
    /\ HasRegion(areas[1]) /\ HasRegion(areas[2])
    /\ RegionOf(areas, 1).view_rotation = iso_quaternion
    /\ RegionOf(areas, 2).view_rotation = QTop

\* C10: only the reset writes view_distance and view_matrix: any other
\* operator leaves both as they were in every region, a reset leaves the
\* distance at 18 or 21 and the matrix as it was or at the default; so a
\* distance is always the initial one, 18 or 21, and a matrix the initial
\* one or the default.
C10_Values ==
    \A i \in Regions(areas) :
        /\ RegionOf(areas, i).view_distance \in InitDistances \cup {18, 21}
        /\ RegionOf(areas, i).view_matrix
               \in {user_view_matrix, default_view_matrix}

C10_Step ==
    \A i \in Regions(areas) :
        LET old == RegionOf(areas, i)
            new == RegionOf(areas', i)
        IN  IF lastOp' = "pdt.reset_3d_view"
            THEN /\ new.view_distance \in {18, 21}
                 /\ new.view_matrix \in {old.view_matrix, default_view_matrix}
            ELSE /\ new.view_distance = old.view_distance
                 /\ new.view_matrix = old.view_matrix

C10_OnlyResetWrites == []C10_Values /\ [][C10_Step]_vars

C10_Witness ==
    /\ lastOp = "pdt.viewrot"
    /\ \E i \in Regions(areas) :
          /\ RegionOf(areas, i).view_distance = 18
          /\ RegionOf(areas, i).view_matrix = default_view_matrix
          /\ RegionOf(areas, i).view_rotation = QBottom

====
